---- MODULE Spec2Model ----
(***************************************************************************)
(* Radiography_Process.py: transmission, extinction length, density and    *)
(* fluorescence corrections over numpy arrays.                             *)
(*                                                                         *)
(* Numbers.  A numpy float64 is modelled as a record [k, n, d, e]:         *)
(*   k = "nan"                      not-a-number                           *)
(*   k = "inf",  n = 1 or -1        +inf / -inf                            *)
(*   k = "fin"                      the value (n/d) * MaxFloat^e, with     *)
(*                                  d > 0, gcd(n,d) = 1 and e in -1..1     *)
(* e = 1 holds what nan_to_num makes of an infinity (the largest finite    *)
(* float), e = -1 a count divided by it.  Arithmetic on the n/d part is    *)
(* exact; exp and log are computed in fixed point with Scale steps per     *)
(* unit.                                                                   *)
(***************************************************************************)
EXTENDS Integers, Sequences, FiniteSets, TLC

VARIABLES pc, fn, args, heap, saved, ret

vars == <<pc, fn, args, heap, saved, ret>>

-----------------------------------------------------------------------------
(* float64 values *)

\* A python statement "v = <expression>" evaluates the expression once and
\* names the value: K is the rest of the block, reading that value
Bind(v, K(_)) == CHOOSE y \in {K(w) : w \in {v}} : TRUE

Abs(x) == IF x < 0 THEN -x ELSE x

Sgn(x) == IF x < 0 THEN -1 ELSE IF x > 0 THEN 1 ELSE 0

RECURSIVE Gcd(_, _)
Gcd(a, b) == IF b = 0 THEN a ELSE Gcd(b, a % b)

NaN == [k |-> "nan", n |-> 0, d |-> 1, e |-> 0]

Inf(s) == [k |-> "inf", n |-> s, d |-> 1, e |-> 0]

FinE(n, d, e) ==
    LET g == Gcd(Abs(n), Abs(d))
        s == IF d < 0 THEN -1 ELSE 1
    IN  IF n = 0 THEN [k |-> "fin", n |-> 0, d |-> 1, e |-> 0]
        ELSE [k |-> "fin", n |-> s * (n \div g), d |-> s * (d \div g), e |-> e]

Fin(n, d) == FinE(n, d, 0)

Num(i) == Fin(i, 1)

IsNaN(x) == x.k = "nan"

IsInf(x) == x.k = "inf"

IsFinite(x) == x.k = "fin"

IsZero(x) == x.k = "fin" /\ x.n = 0

\* python truthiness of a scalar: zero is false, everything else (NaN too) true
Truthy(x) == ~IsZero(x)

FNeg(x) == IF x.k = "nan" THEN x ELSE [x EXCEPT !.n = -x.n]

FAbs(x) == IF x.k = "nan" THEN x ELSE [x EXCEPT !.n = Abs(x.n)]

\* a/b < c/d for a, c >= 0 and b, d > 0, by Euclid's steps (no products, so
\* nothing leaves 32 bits)
RECURSIVE RatLess(_, _, _, _)
RatLess(a, b, c, d) ==
    IF a \div b # c \div d THEN a \div b < c \div d
    ELSE IF c % d = 0 THEN FALSE
    ELSE IF a % b = 0 THEN TRUE
    ELSE RatLess(d, c % d, b, a % b)

\* x < y; any comparison with NaN is false
FLess(x, y) ==
    IF x.k = "nan" \/ y.k = "nan" THEN FALSE
    ELSE IF x.k = "inf" THEN x.n < 0 /\ ~(y.k = "inf" /\ y.n < 0)
    ELSE IF y.k = "inf" THEN y.n > 0
    ELSE IF Sgn(x.n) # Sgn(y.n) THEN Sgn(x.n) < Sgn(y.n)
    ELSE IF x.n = 0 THEN FALSE
    ELSE IF x.e # y.e THEN (IF x.n > 0 THEN x.e < y.e ELSE x.e > y.e)
    ELSE IF x.n > 0 THEN RatLess(x.n, x.d, y.n, y.d)
    ELSE RatLess(-y.n, y.d, -x.n, x.d)

FGreater(x, y) == FLess(y, x)

\* (a * b) / (c * d) in lowest terms, cancelling before multiplying
Quot(a, b, c, d, e) ==
    LET g1 == Gcd(Abs(a), Abs(c))
        g2 == Gcd(Abs(b), Abs(d))
        g3 == Gcd(Abs(a) \div g1, Abs(d) \div g2)
        g4 == Gcd(Abs(b) \div g2, Abs(c) \div g1)
    IN  FinE(((a \div g1) \div g3) * ((b \div g2) \div g4),
             ((c \div g1) \div g4) * ((d \div g2) \div g3), e)

\* x / y in IEEE arithmetic: x/0 is +-inf, 0/0 and inf/inf are NaN
FDiv(x, y) ==
    IF x.k = "nan" \/ y.k = "nan" THEN NaN
    ELSE IF x.k = "inf" THEN
        (IF y.k = "inf" THEN NaN ELSE Inf(x.n * (IF y.n < 0 THEN -1 ELSE 1)))
    ELSE IF y.k = "inf" THEN Num(0)
    ELSE IF y.n = 0 THEN (IF x.n = 0 THEN NaN ELSE Inf(Sgn(x.n)))
    ELSE IF x.n = 0 THEN Num(0)
    ELSE LET q == Quot(x.n, y.d, x.d, y.n, x.e - y.e)
         IN  IF q.e >= 2 \/ (q.e = 1 /\ Abs(q.n) > q.d) THEN Inf(Sgn(q.n))
             ELSE IF q.e <= -2 THEN Num(0)
             ELSE q

\* x * y for operands of scale 0
FMul(x, y) ==
    IF x.k = "nan" \/ y.k = "nan" THEN NaN
    ELSE IF x.k = "inf" \/ y.k = "inf" THEN
        (IF x.n = 0 \/ y.n = 0 THEN NaN ELSE Inf(Sgn(x.n) * Sgn(y.n)))
    ELSE IF x.n = 0 \/ y.n = 0 THEN Num(0)
    ELSE Quot(x.n, y.n, x.d, y.d, x.e + y.e)

\* x - y; inf - inf is NaN, a smaller scale is absorbed by a larger one
FSub(x, y) ==
    IF x.k = "nan" \/ y.k = "nan" THEN NaN
    ELSE IF x.k = "inf" THEN (IF y.k = "inf" /\ y.n = x.n THEN NaN ELSE x)
    ELSE IF y.k = "inf" THEN Inf(-y.n)
    ELSE IF y.n = 0 THEN x
    ELSE IF x.n = 0 THEN FNeg(y)
    ELSE IF x.e = y.e
         THEN LET g == Gcd(x.d, y.d)
              IN  FinE(x.n * (y.d \div g) - y.n * (x.d \div g), (x.d \div g) * y.d, x.e)
    ELSE IF x.e > y.e THEN x
    ELSE FNeg(y)

\* a replacement that touches NaN only and leaves an infinity in place
NanToZero(x) == IF x.k = "nan" THEN Num(0) ELSE x

\* np.nan_to_num: NaN -> 0, +-inf -> +-(largest finite float)
nan_to_num(x) ==
    IF x.k = "nan" THEN Num(0)
    ELSE IF x.k = "inf" THEN FinE(x.n, 1, 1)
    ELSE x

-----------------------------------------------------------------------------
(* np.exp and np.log in fixed point *)

\* fixed-point steps per unit for the arguments and results of exp and log
Scale == 1000 * 1000

\* round(Scale * exp(-j)), j = 0..14
ExpTab1 == <<1000000, 367879, 135335, 49787, 18316, 6738, 2479, 912, 335, 123, 45, 17, 6, 2, 1>>

\* round(Scale * exp(-j/8)), j = 0..7
ExpTab8 == <<1000000, 882497, 778801, 687289, 606531, 535261, 472367, 416862>>

\* round(Scale * exp(-j/64)), j = 0..7
ExpTab64 == <<1000000, 984496, 969233, 954207, 939413, 924849, 910510, 896394>>

\* x * y / Scale for 0 <= x, y <= Scale, without leaving 32 bits
MulS(x, y) == (((x \div 1000) * y) \div 1000) + (((x % 1000) * y) \div Scale)

\* Scale * exp(-y / Scale) for y >= 0: table look-up on the leading bits of y,
\* a third-order Taylor polynomial on the remainder (below 1/64)
ExpNeg(y) ==
    IF y >= 15 * Scale THEN 0
    ELSE LET j1  == y \div Scale
             y1  == y % Scale
             j8  == y1 \div 125000
             y2  == y1 % 125000
             j64 == y2 \div 15625
             r   == y2 % 15625
             t2  == (r * r) \div (2 * Scale)
             t3  == (t2 * r) \div (3 * Scale)
             tay == Scale - r + t2 - t3
         IN  MulS(MulS(ExpTab1[j1 + 1], ExpTab8[j8 + 1]), MulS(ExpTab64[j64 + 1], tay))

\* the least L in lo..hi with ExpNeg(L) <= target (ExpNeg is non-increasing)
RECURSIVE LnSearch(_, _, _)
LnSearch(target, lo, hi) ==
    IF lo >= hi THEN hi
    ELSE Bind((lo + hi) \div 2, LAMBDA mid :
             IF ExpNeg(mid) <= target THEN LnSearch(target, lo, mid)
             ELSE LnSearch(target, mid + 1, hi))

\* a finite value of scale 0 in fixed point: floor(Scale * n / d)
ToFixed(x) ==
    IF Scale % x.d = 0 THEN x.n * (Scale \div x.d)
    ELSE (x.n \div x.d) * Scale + (((x.n % x.d) * Scale) \div x.d)

\* -np.log(x): log(0) = -inf, log(negative) = NaN (numpy warns, does not raise)
NegLog(x) ==
    IF x.k = "nan" THEN NaN
    ELSE IF x.k = "inf" THEN (IF x.n > 0 THEN Inf(-1) ELSE NaN)
    ELSE IF x.n = 0 THEN Inf(1)
    ELSE IF x.n < 0 THEN NaN
    ELSE IF x.e # 0 THEN Num(-710 * x.e)
    ELSE IF x.n <= x.d
         THEN Fin(LnSearch(ToFixed(x), 0, 15 * Scale), Scale)
         ELSE Fin(-LnSearch(ToFixed(Fin(x.d, x.n)), 0, 15 * Scale), Scale)

\* (1 - np.exp(-L)) / L for a finite L > 0 of scale 0
OneMinusExpOver(L) ==
    LET Lf == ToFixed(L)
    IN  IF Lf = 0 THEN Num(1) ELSE Fin(Scale - ExpNeg(Lf), Lf)

-----------------------------------------------------------------------------
(* numpy arrays: a shape (one or two axes), a dtype ("f" float64, "i" int64) *)
(* and the elements in row-major order; "b" is the dtype of a boolean mask   *)

ShapeSize(sh) == IF Len(sh) = 1 THEN sh[1] ELSE sh[1] * sh[2]

\* (SubSeq makes the elements a tuple of values, computed once)
Arr(shape, dtype, data) ==
    [shape |-> shape, dtype |-> dtype, data |-> SubSeq(data, 1, ShapeSize(shape))]

Rows(a) == IF Len(a.shape) = 1 THEN 1 ELSE a.shape[1]

Cols(a) == IF Len(a.shape) = 1 THEN a.shape[1] ELSE a.shape[2]

Size(a) == Len(a.data)

\* len(a): the length of the first axis
PyLen(a) == a.shape[1]

Max2(x, y) == IF x > y THEN x ELSE y

\* numpy broadcasting of two arrays of at most two axes
Broadcastable(a, b) ==
    /\ (Rows(a) = Rows(b) \/ Rows(a) = 1 \/ Rows(b) = 1)
    /\ (Cols(a) = Cols(b) \/ Cols(a) = 1 \/ Cols(b) = 1)

BroadcastShape(a, b) ==
    IF Len(a.shape) = 1 /\ Len(b.shape) = 1
    THEN <<Max2(Cols(a), Cols(b))>>
    ELSE <<Max2(Rows(a), Rows(b)), Max2(Cols(a), Cols(b))>>

\* the element of a that the broadcast pairs with position (i, j), 1-based
At(a, i, j) ==
    a.data[((IF Rows(a) = 1 THEN 1 ELSE i) - 1) * Cols(a) + (IF Cols(a) = 1 THEN 1 ELSE j)]

\* a op b element-wise, as a new array of dtype dt
BinOp(Op(_, _), a, b, dt) ==
    LET r == Max2(Rows(a), Rows(b))
        c == Max2(Cols(a), Cols(b))
    IN  Arr(BroadcastShape(a, b), dt,
            [p \in 1..(r * c) |->
                Op(At(a, ((p - 1) \div c) + 1, ((p - 1) % c) + 1),
                   At(b, ((p - 1) \div c) + 1, ((p - 1) % c) + 1))])

\* f applied element-wise, as a new array of dtype dt
MapArr(F(_), a, dt) == Arr(a.shape, dt, [p \in 1..Size(a) |-> F(a.data[p])])

\* np.min: NaN if any element is NaN, else the least element
RECURSIVE MinFrom(_, _, _)
MinFrom(s, p, m) ==
    IF p > Len(s) THEN m
    ELSE MinFrom(s, p + 1, IF FLess(s[p], m) THEN s[p] ELSE m)

NpMin(a) ==
    IF \E p \in 1..Size(a) : IsNaN(a.data[p]) THEN NaN
    ELSE MinFrom(a.data, 2, a.data[1])

-----------------------------------------------------------------------------
(* sorted(): CPython's list sort on fewer than 64 items is one natural run *)
(* followed by a binary insertion sort; every comparison is "<"            *)

Reverse(s) == [p \in 1..Len(s) |-> s[Len(s) + 1 - p]]

\* the length of the run starting at s[1], given that k items are in it
RECURSIVE RunLen(_, _, _)
RunLen(s, k, descending) ==
    IF k >= Len(s) THEN k
    ELSE IF descending = FLess(s[k + 1], s[k]) THEN RunLen(s, k + 1, descending)
    ELSE k

\* binarysort's search: where the pivot goes in the sorted prefix s[1..r]
RECURSIVE BinPos(_, _, _, _)
BinPos(s, pivot, l, r) ==
    IF l >= r THEN l
    ELSE LET p == l + ((r - l) \div 2)
         IN  IF FLess(pivot, s[p + 1]) THEN BinPos(s, pivot, l, p)
             ELSE BinPos(s, pivot, p + 1, r)

RECURSIVE BinarySort(_, _)
BinarySort(s, start) ==
    IF start >= Len(s) THEN s
    ELSE LET pivot == s[start + 1]
             l == BinPos(s, pivot, 0, start)
         IN  BinarySort(SubSeq(s, 1, l) \o <<pivot>> \o SubSeq(s, l + 1, start)
                            \o SubSeq(s, start + 2, Len(s)),
                        start + 1)

Sorted(s) ==
    IF Len(s) < 2 THEN s
    ELSE LET desc == FLess(s[2], s[1])
             n == RunLen(s, 2, desc)
             run == IF desc THEN Reverse(SubSeq(s, 1, n)) \o SubSeq(s, n + 1, Len(s)) ELSE s
         IN  BinarySort(run, n)

-----------------------------------------------------------------------------
(* the object store: objs[id] is the array object with that identity, wrote *)
(* the identities that an in-place operation has written to                 *)

Store(objs) == [objs |-> objs, wrote |-> {}]

NextId(st) == Len(st.objs) + 1

Alloc(st, a) == [st EXCEPT !.objs = Append(@, a)]

InPlace(st, id, a) == [st EXCEPT !.objs[id] = a, !.wrote = @ \cup {id}]

\* how a call ends: an array object, None, or an exception
Ret(st, id) == [st |-> st, kind |-> "array", id |-> id, exc |-> "none"]

RetNone(st) == [st |-> st, kind |-> "None", id |-> 0, exc |-> "none"]

Raise(st, exc) == [st |-> st, kind |-> "raise", id |-> 0, exc |-> exc]

-----------------------------------------------------------------------------
(* fcompute_transmission, fcompute_extinction_lengths,                      *)
(* fcompute_radiography_density                                             *)

\* sorted(transmission)[-2 if len(transmission)>1 else -1] for one axis:
\* the items are the elements
SortedPick(t) ==
    Sorted(t.data)[IF PyLen(t) > 1 THEN PyLen(t) - 1 ELSE PyLen(t)]

\* the same for two axes: the items are the rows.  One row is picked without
\* a comparison; rows of one element compare like their element
SortedPickRow(t) ==
    IF Rows(t) = 1 THEN Arr(<<Cols(t)>>, "f", t.data)
    ELSE Arr(<<1>>, "f", <<SortedPick(Arr(<<Rows(t)>>, "f", t.data))>>)

fcompute_transmission(st, PIN, reference, clear_ratio, PIN_dark, ref_dark) ==
    IF ~Broadcastable(st.objs[PIN], st.objs[reference])
    THEN Raise(st, "ValueError")
    ELSE
    Bind(MapArr(LAMBDA x : FSub(x, PIN_dark), st.objs[PIN], st.objs[PIN].dtype), LAMBDA num :
    Bind(MapArr(LAMBDA x : FSub(x, ref_dark), st.objs[reference], st.objs[reference].dtype), LAMBDA den :
    Bind(BinOp(FDiv, num, den, "f"), LAMBDA t :
    Bind(Alloc(Alloc(Alloc(st, num), den), t), LAMBDA s1 :
    Bind(NextId(st) + 2, LAMBDA transmission :
        IF Truthy(clear_ratio)
        THEN Ret(InPlace(s1, transmission, MapArr(LAMBDA x : FDiv(x, clear_ratio), t, "f")),
                 transmission)
        ELSE IF Len(t.shape) = 1
        THEN Bind(SortedPick(t), LAMBDA pick :
                 Ret(Alloc(s1, MapArr(LAMBDA x : FDiv(x, pick), t, "f")), transmission + 1))
        ELSE IF Rows(t) > 1 /\ Cols(t) > 1
        \* comparing two rows gives an array of booleans, whose truth value
        \* is ambiguous
        THEN Raise(s1, "ValueError")
        ELSE Ret(Alloc(s1, BinOp(FDiv, t, SortedPickRow(t), "f")), transmission + 1))))))

Log(x) == FNeg(NegLog(x))

fcompute_extinction_lengths(st, PIN, reference, clear_ratio, PIN_dark, ref_dark, abs_value) ==
    Bind(fcompute_transmission(st, PIN, reference, clear_ratio, PIN_dark, ref_dark), LAMBDA r :
        IF r.kind = "raise" THEN r
        ELSE IF abs_value
        THEN Bind(MapArr(FAbs, r.st.objs[r.id], "f"), LAMBDA a :
             Bind(MapArr(Log, a, "f"), LAMBDA l :
                 Ret(Alloc(Alloc(Alloc(r.st, a), l), MapArr(FNeg, l, "f")), NextId(r.st) + 2)))
        ELSE Bind(MapArr(Log, r.st.objs[r.id], "f"), LAMBDA l :
                 Ret(Alloc(Alloc(r.st, l), MapArr(FNeg, l, "f")), NextId(r.st) + 1)))

\* the density without the guard on abs_coeff: the division is always made
DensityUnguarded(st, PIN, reference, clear_ratio, PIN_dark, ref_dark, abs_coeff) ==
    Bind(fcompute_extinction_lengths(st, PIN, reference, clear_ratio,
                                     PIN_dark, ref_dark, TRUE), LAMBDA r :
        IF r.kind = "raise" THEN r
        ELSE Ret(Alloc(r.st, MapArr(LAMBDA x : FDiv(x, abs_coeff), r.st.objs[r.id], "f")),
                 NextId(r.st)))

fcompute_radiography_density(st, PIN, reference, clear_ratio, PIN_dark, ref_dark, abs_coeff) ==
    IF Truthy(abs_coeff)
    THEN Bind(fcompute_extinction_lengths(st, PIN, reference, clear_ratio,
                                          PIN_dark, ref_dark, TRUE), LAMBDA r :
             IF r.kind = "raise" THEN r
             ELSE Ret(Alloc(r.st, MapArr(LAMBDA x : FDiv(x, abs_coeff), r.st.objs[r.id], "f")),
                      NextId(r.st)))
    ELSE RetNone(st)

-----------------------------------------------------------------------------
(* fcorrect_incident_intensity_colocated *)

\* the threshold 1e-5 is 1 / SigThresholdInv
SigThresholdInv == 100000

\* what storing the float x in an array of dtype dt leaves there: an int64
\* array keeps the integer part
Cast(x, dt) ==
    IF dt = "i" /\ x.k = "fin" THEN Num(Sgn(x.n) * (Abs(x.n) \div x.d)) ELSE x

\* (1-np.exp(-L))/L for an element with L > 1e-5
SigCorrection(L) == IF IsInf(L) THEN Num(0) ELSE OneMinusExpOver(L)

\* np.ones_like
OnesLike(a) == Arr(a.shape, a.dtype, [p \in 1..Size(a) |-> Num(1)])

fcorrect_incident_intensity_colocated(st, ext_lengths) ==
    Bind(st.objs[ext_lengths], LAMBDA L :
    Bind(Alloc(st, OnesLike(L)), LAMBDA s1 :
    Bind(NextId(st), LAMBDA intensity_correction :
    Bind(Arr(L.shape, "b", [p \in 1..Size(L) |-> FGreater(L.data[p], Fin(1, SigThresholdInv))]),
         LAMBDA is_sig :
    Bind(Arr(L.shape, L.dtype,
             [p \in 1..Size(L) |->
                 IF is_sig.data[p] THEN Cast(SigCorrection(L.data[p]), L.dtype)
                 ELSE s1.objs[intensity_correction].data[p]]), LAMBDA new :
        Ret(InPlace(s1, intensity_correction, new), intensity_correction))))))

-----------------------------------------------------------------------------
(* fcompute_fluorescence *)

\* a python scalar: its type matters where it multiplies an integer array
PyInt(i) == [dt |-> "i", v |-> Num(i)]

PyFloat(n, d) == [dt |-> "f", v |-> Fin(n, d)]

\* a /= b in place: the result must fit a's own shape
InPlaceDiv(st, a, b) ==
    InPlace(st, a, BinOp(FDiv, st.objs[a], st.objs[b], "f"))

CanInPlace(st, a, b) ==
    /\ Broadcastable(st.objs[a], st.objs[b])
    /\ BroadcastShape(st.objs[a], st.objs[b]) = st.objs[a].shape

\* "radiography *= abs_coeff": the product written into the caller's array
ExtLengthsInPlace(st, radiography, abs_coeff) ==
    IF Truthy(abs_coeff.v)
    THEN InPlace(st, radiography,
                 MapArr(LAMBDA x : FMul(x, abs_coeff.v), st.objs[radiography],
                        st.objs[radiography].dtype))
    ELSE Bind(MapArr(Log, st.objs[radiography], "f"), LAMBDA l :
             Alloc(Alloc(st, l), MapArr(FNeg, l, "f")))

\* lines 153-156 (and 73-76): radiography * abs_coeff, or -np.log(radiography)
ExtLengths(st, radiography, abs_coeff) ==
    IF Truthy(abs_coeff.v)
    THEN Alloc(st, MapArr(LAMBDA x : FMul(x, abs_coeff.v), st.objs[radiography],
                          IF st.objs[radiography].dtype = "i" /\ abs_coeff.dt = "i"
                          THEN "i" ELSE "f"))
    ELSE Bind(MapArr(Log, st.objs[radiography], "f"), LAMBDA l :
             Alloc(Alloc(st, l), MapArr(FNeg, l, "f")))

\* a return that ignores the baseline flag
BaselineIgnored(st, final_fluorescence, baseline) == Ret(st, final_fluorescence)

\* lines 165-168 (and 90-93): the optional baseline and the return
Baseline(st, final_fluorescence, baseline) ==
    IF baseline
    THEN Bind(NpMin(st.objs[final_fluorescence]), LAMBDA m :
             Ret(Alloc(st, MapArr(LAMBDA x : FSub(x, m), st.objs[final_fluorescence], "f")),
                 NextId(st)))
    ELSE Ret(st, final_fluorescence)

fcompute_fluorescence(st, raw_fluorescence, slow_events, fast_events, radiography, reference, abs_coeff, baseline) ==
    IF ~Broadcastable(st.objs[slow_events], st.objs[fast_events]) THEN Raise(st, "ValueError")
    ELSE
    Bind(BinOp(FDiv, st.objs[slow_events], st.objs[fast_events], "f"), LAMBDA q :
    Bind(MapArr(nan_to_num, q, "f"), LAMBDA live_time :
    Bind(Alloc(Alloc(st, q), live_time), LAMBDA s1 :
        IF ~Broadcastable(st.objs[raw_fluorescence], live_time) THEN Raise(s1, "ValueError")
        ELSE
        Bind(Alloc(s1, BinOp(FDiv, st.objs[raw_fluorescence], live_time, "f")), LAMBDA s2 :
        Bind(NextId(s1), LAMBDA final_fluorescence :
            IF ~CanInPlace(s2, final_fluorescence, reference) THEN Raise(s2, "ValueError")
            ELSE
            Bind(InPlaceDiv(s2, final_fluorescence, reference), LAMBDA s3 :
            Bind(ExtLengths(s3, radiography, abs_coeff), LAMBDA s4 :
            Bind(fcorrect_incident_intensity_colocated(s4, NextId(s4) - 1), LAMBDA r :
                IF ~CanInPlace(r.st, final_fluorescence, r.id) THEN Raise(r.st, "ValueError")
                ELSE Bind(InPlaceDiv(r.st, final_fluorescence, r.id), LAMBDA s5 :
                         Baseline(s5, final_fluorescence, baseline))))))))))

-----------------------------------------------------------------------------
(* fdead_time_zero_function, brentq, fcorrect_deadtime *)

\* Count rates are solved on a grid of RateScale steps per count/s: the grid
\* step stands for brentq's tolerance (xtol)
RateScale == 10

\* the bracket brentq is given: [rate - 50000, rate + 1e5]
BracketBelow == 50000

BracketAbove == 100000

\* time constants are in units of 1e-9 s: the defaults 3.15e-7 and 3.13e-7
DefaultTimeConst == 315

FitFastTimeConst == 313

\* a finite rate >= 0 on the grid: floor(RateScale * n / d)
ToGrid(x) ==
    IF RateScale % x.d = 0 THEN x.n * (RateScale \div x.d)
    ELSE (x.n \div x.d) * RateScale + (((x.n % x.d) * RateScale) \div x.d)

\* actual * exp(-tc * actual) - observed, all rates in grid steps
fdead_time_zero_function(actual_countrate, observed_countrate, time_constant) ==
    Bind(Abs(actual_countrate), LAMBDA xa :
    \* E = Scale * exp(-time_constant * |actual|)
    Bind(ExpNeg(((time_constant * (xa \div RateScale)) \div 1000)
                + ((time_constant * (xa % RateScale)) \div (1000 * RateScale))), LAMBDA E :
        IF actual_countrate >= 0
        THEN ((xa \div Scale) * E) + MulS(xa % Scale, E) - observed_countrate
        \* EP = 1000 * exp(+time_constant * |actual|)
        ELSE Bind((Scale * 1000) \div E, LAMBDA EP :
                 -(((xa \div 1000) * EP) + (((xa % 1000) * EP) \div 1000))
                 - observed_countrate)))

\* an iteration that stops at once, at the upper end of the bracket
BisectUpper(a, b, sa, observed, tc) == b

\* brentq's iteration, as a bisection on the grid: f has the sign sa at a
\* and the opposite sign at b
RECURSIVE Bisect(_, _, _, _, _)
Bisect(a, b, sa, observed, tc) ==
    IF b - a <= 1
    THEN (IF Abs(fdead_time_zero_function(a, observed, tc))
              < Abs(fdead_time_zero_function(b, observed, tc)) THEN a ELSE b)
    ELSE Bind((a + b) \div 2, LAMBDA m :
         Bind(fdead_time_zero_function(m, observed, tc), LAMBDA fm :
             IF fm = 0 THEN m
             ELSE IF Sgn(fm) = sa THEN Bisect(m, b, sa, observed, tc)
             ELSE Bisect(a, m, sa, observed, tc)))

\* a solver that, without a sign change, gives back the upper end of the
\* bracket instead of failing
BrentqClamped(a, b, observed, tc) ==
    Bind(fdead_time_zero_function(a, observed, tc), LAMBDA fa :
    Bind(fdead_time_zero_function(b, observed, tc), LAMBDA fb :
        IF Sgn(fa) * Sgn(fb) > 0 THEN [ok |-> TRUE, x |-> b]
        ELSE IF fa = 0 THEN [ok |-> TRUE, x |-> a]
        ELSE IF fb = 0 THEN [ok |-> TRUE, x |-> b]
        ELSE [ok |-> TRUE, x |-> Bisect(a, b, Sgn(fa), observed, tc)]))

\* scipy.optimize.brentq(fdead_time_zero_function, a, b, (observed, tc)):
\* f(a) and f(b) of the same sign is a ValueError
brentq(a, b, observed, tc) ==
    Bind(fdead_time_zero_function(a, observed, tc), LAMBDA fa :
    Bind(fdead_time_zero_function(b, observed, tc), LAMBDA fb :
        IF Sgn(fa) * Sgn(fb) > 0 THEN [ok |-> FALSE, x |-> 0]
        ELSE IF fa = 0 THEN [ok |-> TRUE, x |-> a]
        ELSE IF fb = 0 THEN [ok |-> TRUE, x |-> b]
        ELSE [ok |-> TRUE, x |-> Bisect(a, b, Sgn(fa), observed, tc)]))

\* lines 108-110: the loop over the elements, in order; the first failed
\* solve ends it.  fitted holds the rates solved so far
RECURSIVE SolveLoop(_, _, _, _)
SolveLoop(rates, tc, i, fitted) ==
    IF i > Len(rates) THEN [ok |-> TRUE, fitted |-> fitted]
    ELSE Bind(ToGrid(rates[i]), LAMBDA o :
         Bind(brentq(o - BracketBelow * RateScale, o + BracketAbove * RateScale, o, tc), LAMBDA r :
             IF r.ok
             THEN Bind(Append(fitted, Fin(r.x, RateScale)), LAMBDA f1 : SolveLoop(rates, tc, i + 1, f1))
             ELSE [ok |-> FALSE, fitted |-> fitted]))

fcorrect_deadtime(st, raw_fluorescence, slow_events, fast_events, integration_time, fast_filter_time_constant) ==
    Bind(MapArr(LAMBDA x : FDiv(x, integration_time), st.objs[fast_events], "f"),
         LAMBDA fast_countrate :
    \* fast_countrate, its flattened copy, fitted_fast_countrate
    Bind(Alloc(Alloc(Alloc(st, fast_countrate),
                     Arr(<<Size(fast_countrate)>>, "f", fast_countrate.data)),
               Arr(<<Size(fast_countrate)>>, "f", [p \in 1..Size(fast_countrate) |-> Num(0)])),
         LAMBDA s1 :
    Bind(NextId(st) + 2, LAMBDA fitted_fast_countrate :
        \* fast_countrate[i] is a row when there are two axes: brentq cannot
        \* take a row of several elements as a bracket end
        IF Len(fast_countrate.shape) = 2 /\ Cols(fast_countrate) > 1 THEN Raise(s1, "TypeError")
        ELSE
        Bind(SolveLoop(fast_countrate.data, fast_filter_time_constant, 1, <<>>), LAMBDA sol :
            IF ~sol.ok THEN Raise(s1, "ValueError")
            ELSE
            \* line 111's reshape makes a new view and drops it: fitted stays flat
            Bind(InPlace(s1, fitted_fast_countrate, Arr(<<Size(fast_countrate)>>, "f", sol.fitted)),
                 LAMBDA s2 :
            Bind(s2.objs[fitted_fast_countrate], LAMBDA fitted :
                IF ~Broadcastable(st.objs[slow_events], fitted) THEN Raise(s2, "ValueError")
                ELSE
                Bind(BinOp(FDiv, st.objs[slow_events], fitted, "f"), LAMBDA q1 :
                Bind(MapArr(LAMBDA x : FDiv(x, integration_time), q1, "f"), LAMBDA q2 :
                Bind(MapArr(nan_to_num, q2, "f"), LAMBDA live_time :
                Bind(Alloc(Alloc(Alloc(s2, q1), q2), live_time), LAMBDA s3 :
                    IF ~Broadcastable(st.objs[raw_fluorescence], live_time)
                    THEN Raise(s3, "ValueError")
                    ELSE Ret(Alloc(s3, BinOp(FDiv, st.objs[raw_fluorescence], live_time, "f")),
                             NextId(s3))))))))))))

-----------------------------------------------------------------------------
(* fcompute_fluorescence_fit_fast *)

\* line 83's own copy of the threshold 1e-5
FitSigThresholdInv == 100000

fcompute_fluorescence_fit_fast(st, raw_fluorescence, slow_events, fast_events, radiography, reference, integration_time, abs_coeff, baseline, time_const) ==
    Bind(fcorrect_deadtime(st, raw_fluorescence, slow_events, fast_events,
                           integration_time, time_const), LAMBDA r :
    Bind(r.id, LAMBDA final_fluorescence :
        IF r.kind = "raise" THEN r
        ELSE IF ~CanInPlace(r.st, final_fluorescence, reference) THEN Raise(r.st, "ValueError")
        ELSE
        Bind(InPlaceDiv(r.st, final_fluorescence, reference), LAMBDA s1 :
        Bind(ExtLengths(s1, radiography, abs_coeff), LAMBDA s2 :
        Bind(s2.objs[NextId(s2) - 1], LAMBDA L :
        Bind(Alloc(s2, OnesLike(L)), LAMBDA s3 :
        Bind(NextId(s2), LAMBDA intensity_correction :
        Bind(Arr(L.shape, "b", [p \in 1..Size(L) |-> FGreater(L.data[p], Fin(1, FitSigThresholdInv))]),
             LAMBDA is_sig :
        Bind(Arr(L.shape, L.dtype,
                 [p \in 1..Size(L) |->
                     IF is_sig.data[p] THEN Cast(SigCorrection(L.data[p]), L.dtype)
                     ELSE s3.objs[intensity_correction].data[p]]), LAMBDA new :
        Bind(InPlace(s3, intensity_correction, new), LAMBDA s4 :
            IF ~CanInPlace(s4, final_fluorescence, intensity_correction)
            THEN Raise(s4, "ValueError")
            ELSE Bind(InPlaceDiv(s4, final_fluorescence, intensity_correction), LAMBDA s5 :
                     Baseline(s5, final_fluorescence, baseline))))))))))))

-----------------------------------------------------------------------------
(* the caller: it builds its arrays, makes one call, looks at what came    *)
(* back, and starts over                                                   *)

\* bounds of the model
MaxLen == 3

MaxCount == 1

Counts == 0..MaxCount

Nums(S) == {Num(i) : i \in S}

Shapes1D == {<<n>> : n \in 1..MaxLen}

ShortShapes1D == {<<n>> : n \in 1..(MaxLen - 1)}

Shapes2D == {<<1, 1>>, <<1, 2>>, <<2, 1>>, <<2, 2>>}

SmallShapes == {<<1>>, <<2>>, <<1, 2>>, <<2, 1>>}

\* every array of shape sh and dtype dt with elements from S
Arrays(sh, dt, S) == {Arr(sh, dt, d) : d \in [1..ShapeSize(sh) -> S]}

\* the array of shape sh with every element v
Uniform(sh, dt, v) == Arr(sh, dt, [p \in 1..ShapeSize(sh) |-> v])

NoRet == [kind |-> "none", exc |-> "none", id |-> 0, val |-> <<>>, locals |-> <<>>, wrote |-> {}]

\* one call: inputs are the caller's arrays (identities 1..Len(inputs)), result
\* is how the function ended on them.  locals are the objects the call made,
\* in the order it made them
Call(f, inputs, scalars, result) ==
    \E r \in {result} :
    /\ pc' = "done"
    /\ fn' = f
    /\ args' = scalars
    /\ saved' = inputs
    /\ heap' = SubSeq(r.st.objs, 1, Len(inputs))
    /\ ret' = [kind   |-> r.kind,
               exc    |-> r.exc,
               id     |-> r.id,
               val    |-> IF r.kind = "array" THEN r.st.objs[r.id] ELSE <<>>,
               locals |-> SubSeq(r.st.objs, Len(inputs) + 1, Len(r.st.objs)),
               wrote  |-> r.st.wrote]

Init ==
    /\ pc = "idle"
    /\ fn = "none"
    /\ args = <<>>
    /\ heap = <<>>
    /\ saved = <<>>
    /\ ret = NoRet

\* intensities: PIN counts, reference counts (positive), dark currents
RefVals == {1, 2}

Darks == {0, 1}

ClearRatios == {0, 2}

TransmissionInputs(shapes1D) ==
    UNION {{<<a, b>> : a \in Arrays(sh, "i", Nums(Counts)), b \in Arrays(sh, "i", Nums(RefVals))}
           : sh \in shapes1D}
    \cup
    UNION {{<<a, b>> : a \in Arrays(sh, "i", Nums(RefVals)), b \in Arrays(sh, "i", Nums(RefVals))}
           : sh \in Shapes2D}

CallTransmission ==
    /\ pc = "idle"
    /\ \E in \in TransmissionInputs(Shapes1D), c \in ClearRatios, pd \in Darks, rd \in Darks :
           Call("transmission", in,
                [clear_ratio |-> Num(c), PIN_dark |-> Num(pd), ref_dark |-> Num(rd)],
                fcompute_transmission(Store(in), 1, 2, Num(c), Num(pd), Num(rd)))

CallExtinctionLengths ==
    /\ pc = "idle"
    /\ \E in \in TransmissionInputs(ShortShapes1D), c \in ClearRatios, dk \in Darks, av \in BOOLEAN :
           Call("extinction_lengths", in,
                [clear_ratio |-> Num(c), PIN_dark |-> Num(dk), ref_dark |-> Num(dk), abs_value |-> av],
                fcompute_extinction_lengths(Store(in), 1, 2, Num(c), Num(dk), Num(dk), av))

AbsCoeffs == {Num(0), Num(2), Fin(1, 2)}

CallRadiographyDensity ==
    /\ pc = "idle"
    /\ \E in \in TransmissionInputs(ShortShapes1D), c \in ClearRatios, dk \in Darks, ac \in AbsCoeffs :
           Call("radiography_density", in,
                [clear_ratio |-> Num(c), PIN_dark |-> Num(dk), ref_dark |-> Num(dk), abs_coeff |-> ac],
                fcompute_radiography_density(Store(in), 1, 2, Num(c), Num(dk), Num(dk), ac))

\* extinction lengths: below, at and just above the threshold 1e-5, and larger
FloatLengths == {Num(-1), Num(0), Fin(1, 100000), Fin(11, 1000000), Fin(1, 2), Num(1), Num(10)}

IntLengths == {Num(-1), Num(0), Num(1), Num(2)}

CallIncidentIntensity ==
    /\ pc = "idle"
    /\ \E sh \in Shapes1D \cup {<<1, 2>>, <<2, 1>>} :
           \E L \in Arrays(sh, "f", FloatLengths) \cup Arrays(sh, "i", IntLengths) :
               Call("incident_intensity", <<L>>, <<>>,
                    fcorrect_incident_intensity_colocated(Store(<<L>>), 1))

\* radiography with the absorption coefficient it is used with: a
\* transmission (abs_coeff = 0) or a density
Radiographies ==
    { [dt |-> "f", v |-> Num(1),    abs_coeff |-> PyInt(0)],
      [dt |-> "f", v |-> Fin(1, 2), abs_coeff |-> PyInt(0)],
      [dt |-> "f", v |-> Fin(1, 2), abs_coeff |-> PyFloat(1, 2)],
      [dt |-> "i", v |-> Num(2),    abs_coeff |-> PyInt(2)] }

FluoRefVals == {0, 1, 2}

\* raw fluorescence counts
RawVals == {0, 1}

FluoShapes == {<<1>>, <<2>>, <<2, 1>>}

CallFluorescence ==
    /\ pc = "idle"
    /\ \E sh \in FluoShapes, rad \in Radiographies, rf \in FluoRefVals, bl \in BOOLEAN :
           \E raw \in Arrays(sh, "i", Nums(RawVals)), slow \in Arrays(sh, "i", Nums(Counts)),
              fast \in Arrays(sh, "i", Nums(Counts)) :
               Call("fluorescence",
                    <<raw, slow, fast, Uniform(sh, rad.dt, rad.v), Uniform(sh, "i", Num(rf))>>,
                    [abs_coeff |-> rad.abs_coeff, baseline |-> bl],
                    fcompute_fluorescence(
                        Store(<<raw, slow, fast, Uniform(sh, rad.dt, rad.v), Uniform(sh, "i", Num(rf))>>),
                        1, 2, 3, 4, 5, rad.abs_coeff, bl))

\* fast-filter counts per integration: none, a moderate rate, and rates whose
\* root the bracket misses
FastEvents == {0, 1000, 400001, 500000}

IntegrationTimes == {1, 2}

CallCorrectDeadtime ==
    /\ pc = "idle"
    /\ \E sh \in SmallShapes, it \in IntegrationTimes, tc \in {DefaultTimeConst} :
           \E raw \in Arrays(sh, "i", Nums(RawVals)), slow \in Arrays(sh, "i", Nums(Counts)),
              fast \in Arrays(sh, "i", Nums(FastEvents)) :
               Call("correct_deadtime", <<raw, slow, fast>>,
                    [integration_time |-> Num(it), time_const |-> tc, actual |-> <<>>],
                    fcorrect_deadtime(Store(<<raw, slow, fast>>), 1, 2, 3, Num(it), tc))

\* a large time constant, 1e-5 s, whose dead-time curve peaks at 1e5 counts/s
LongTimeConst == 10000

\* synthetic actual rates (counts/s) for each time constant
ActualRates(tc) ==
    IF tc = LongTimeConst THEN {0, 1000, 50000, 83000, 120000}
    ELSE {0, 1000, 100000, 400000, 560000, 600000}

\* observed_rate = actual_rate * exp(-tc * actual_rate), in counts/s
Observed(a, tc) == Fin(fdead_time_zero_function(a * RateScale, 0, tc), RateScale)

\* the round trip: fast_events = observed_rate * integration_time
CallDeadtimeRoundTrip ==
    /\ pc = "idle"
    /\ \E n \in 1..2, it \in IntegrationTimes, tc \in {DefaultTimeConst, LongTimeConst} :
           \E act \in [1..n -> ActualRates(tc)], raw \in Arrays(<<n>>, "i", Nums(RawVals)),
              slow \in Arrays(<<n>>, "i", Nums(Counts)) :
               LET fast == Arr(<<n>>, "f", [p \in 1..n |-> FMul(Observed(act[p], tc), Num(it))])
               IN  Call("correct_deadtime", <<raw, slow, fast>>,
                        [integration_time |-> Num(it), time_const |-> tc, actual |-> act],
                        fcorrect_deadtime(Store(<<raw, slow, fast>>), 1, 2, 3, Num(it), tc))

FitFastEvents == {0, 4, 500000}

FitRefVals == {0, 1}

CallFluorescenceFitFast ==
    /\ pc = "idle"
    /\ \E sh \in FluoShapes, rad \in Radiographies, rf \in FitRefVals, bl \in BOOLEAN :
           \E raw \in Arrays(sh, "i", Nums(RawVals)), slow \in Arrays(sh, "i", Nums(Counts)),
              fast \in Arrays(sh, "i", Nums(FitFastEvents)) :
               Call("fluorescence_fit_fast",
                    <<raw, slow, fast, Uniform(sh, rad.dt, rad.v), Uniform(sh, "i", Num(rf))>>,
                    [abs_coeff |-> rad.abs_coeff, baseline |-> bl, integration_time |-> Num(1),
                     time_const |-> FitFastTimeConst],
                    fcompute_fluorescence_fit_fast(
                        Store(<<raw, slow, fast, Uniform(sh, rad.dt, rad.v), Uniform(sh, "i", Num(rf))>>),
                        1, 2, 3, 4, 5, Num(1), rad.abs_coeff, bl, FitFastTimeConst))

\* the caller drops what it held
Return ==
    /\ pc = "done"
    /\ pc' = "idle"
    /\ fn' = "none"
    /\ args' = <<>>
    /\ heap' = <<>>
    /\ saved' = <<>>
    /\ ret' = NoRet

Next ==
    \/ CallTransmission
    \/ CallExtinctionLengths
    \/ CallRadiographyDensity
    \/ CallIncidentIntensity
    \/ CallFluorescence
    \/ CallCorrectDeadtime
    \/ CallDeadtimeRoundTrip
    \/ CallFluorescenceFitFast
    \/ Return

Spec == Init /\ [][Next]_vars

-----------------------------------------------------------------------------
(* The properties.  Each reads the caller's view after one call: what it    *)
(* passed (saved), what its arrays hold now (heap), how the call ended (ret) *)

Done == pc = "done"

\* the second-largest item of s with duplicates counted, the sole item of a
\* sequence of one
SecondLargest(s) ==
    IF Len(s) = 1 THEN s[1]
    ELSE CHOOSE x \in {s[p] : p \in 1..Len(s)} :
             /\ Cardinality({p \in 1..Len(s) : FLess(x, s[p])}) <= 1
             /\ Cardinality({p \in 1..Len(s) : ~FLess(s[p], x)}) >= 2

\* r = (PIN - PIN_dark) / (reference - ref_dark), element by element
Ratio ==
    BinOp(FDiv, MapArr(LAMBDA x : FSub(x, args.PIN_dark), saved[1], "f"),
                MapArr(LAMBDA x : FSub(x, args.ref_dark), saved[2], "f"), "f")

\* C1: transmission with clear_ratio = 0 on arrays of any shape with a finite
\* ratio r everywhere returns r divided by the second-largest element of the
\* flattened r (by the sole element when there is one).
C1_AutoNormalization ==
    (/\ Done
     /\ fn = "transmission"
     /\ IsZero(args.clear_ratio)
     /\ \A p \in 1..Size(Ratio) : IsFinite(Ratio.data[p]))
    => /\ ret.kind = "array"
       /\ ret.val.shape = saved[1].shape
       /\ \A p \in 1..Size(Ratio) :
              ret.val.data[p] = FDiv(Ratio.data[p], SecondLargest(Ratio.data))

\* C2: fluorescence with baseline false, abs_coeff = 0, radiography all ones
\* and fast_events = slow_events everywhere (any counts >= 0) returns
\* raw_fluorescence / reference at every element.
C2_ReducesToRatio ==
    (/\ Done
     /\ fn = "fluorescence"
     /\ ~args.baseline
     /\ IsZero(args.abs_coeff.v)
     /\ \A p \in 1..Size(saved[4]) : saved[4].data[p] = Num(1)
     /\ saved[3].data = saved[2].data)
    => /\ ret.kind = "array"
       /\ \A p \in 1..Size(saved[1]) :
              ret.val.data[p] = FDiv(saved[1].data[p], saved[5].data[p])

\* the minimum of the elements is exactly 0: none is NaN or negative, one is 0
MinIsZero(a) ==
    /\ \A p \in 1..Size(a) : ~IsNaN(a.data[p]) /\ ~FLess(a.data[p], Num(0))
    /\ \E p \in 1..Size(a) : IsZero(a.data[p])

HasNaN(a) == \E p \in 1..Size(a) : IsNaN(a.data[p])

\* the elements have a finite minimum: none is NaN or -inf, one is finite
FiniteMin(a) ==
    /\ \A p \in 1..Size(a) : ~IsNaN(a.data[p]) /\ ~(IsInf(a.data[p]) /\ a.data[p].n < 0)
    /\ \E p \in 1..Size(a) : IsFinite(a.data[p])

BaselineCall ==
    /\ Done
    /\ fn \in {"fluorescence", "fluorescence_fit_fast"}
    /\ args.baseline
    /\ ret.kind = "array"

\* final_fluorescence as the baseline step finds it: the third object that
\* fluorescence makes, the seventh that fluorescence_fit_fast makes
PreBaseline == IF fn = "fluorescence" THEN ret.locals[3] ELSE ret.locals[7]

\* C3 as stated: with baseline = True every returned array has minimum
\* exactly 0, whatever the inputs.
C3_BaselineMinZero == BaselineCall => MinIsZero(ret.val)

\* C3 amended: with baseline = True the returned array has minimum exactly 0
\* when the corrected array has a finite minimum (no NaN, no -inf, not all
\* +inf); otherwise the returned array holds NaN, so its minimum is NaN.
C3_BaselineMinZeroOrNaN ==
    BaselineCall =>
        IF FiniteMin(PreBaseline) THEN MinIsZero(ret.val) ELSE HasNaN(ret.val)

\* a baseline call on a corrected array whose finite minimum is not 0
C3_Witness ==
    /\ BaselineCall
    /\ fn = "fluorescence_fit_fast"
    /\ FiniteMin(PreBaseline)
    /\ ~MinIsZero(PreBaseline)
    /\ MinIsZero(ret.val)

\* the observed rate of element p on the solver's grid
ObservedRate(p) == ToGrid(FDiv(saved[3].data[p], args.integration_time))

\* the residual at the lower and at the upper end of element p's bracket
ResidualLow(p) ==
    fdead_time_zero_function(ObservedRate(p) - BracketBelow * RateScale,
                             ObservedRate(p), args.time_const)

ResidualHigh(p) ==
    fdead_time_zero_function(ObservedRate(p) + BracketAbove * RateScale,
                             ObservedRate(p), args.time_const)

SameSign(p) == Sgn(ResidualLow(p)) * Sgn(ResidualHigh(p)) > 0

\* C4: correct_deadtime on arrays of any common shape whose roots are all
\* bracketed returns an array of the shape of the inputs.
C4_ShapePreserved ==
    (/\ Done
     /\ fn = "correct_deadtime"
     /\ \A p \in 1..Size(saved[3]) : ~SameSign(p))
    => /\ ret.kind = "array"
       /\ ret.val.shape = saved[3].shape

RoundTripCall == Done /\ fn = "correct_deadtime" /\ Len(args.actual) > 0

\* the synthetic actual rate of element p lies in [o - 5e4, o + 1e5]
InBracket(p) ==
    /\ args.actual[p] * RateScale >= ObservedRate(p) - BracketBelow * RateScale
    /\ args.actual[p] * RateScale <= ObservedRate(p) + BracketAbove * RateScale

\* the solved rate of element p is the actual rate, within two grid steps (the solver's tolerance)
Recovered(p) == Abs(ToGrid(ret.locals[3].data[p]) - args.actual[p] * RateScale) <= 2

\* the returned element is raw_fluorescence * rate * integration_time / slow_events
ScaledByRate(p) ==
    ret.val.data[p] =
        FDiv(FMul(FMul(saved[1].data[p], ret.locals[3].data[p]), args.integration_time),
             saved[2].data[p])

\* C5 as stated: whenever the actual rate a lies in the bracket
\* [o - 5e4, o + 1e5] around the observed rate o = a * exp(-tc * a), the call
\* solves a rate equal to a.
C5_RoundTrip ==
    (RoundTripCall /\ \A p \in 1..Len(args.actual) : InBracket(p))
    => /\ ret.kind = "array"
       /\ \A p \in 1..Len(args.actual) : Recovered(p)

\* C5 amended: whenever a lies in the bracket and the residual is positive at
\* the bracket's upper end o + 1e5 (so a is the only root in the bracket), the
\* call solves a rate equal to a, and an element with a > 0 and
\* slow_events > 0 is raw_fluorescence * rate * integration_time / slow_events.
C5_RoundTripSingleRoot ==
    (RoundTripCall /\ \A p \in 1..Len(args.actual) : InBracket(p) /\ ResidualHigh(p) > 0)
    => /\ ret.kind = "array"
       /\ \A p \in 1..Len(args.actual) :
              /\ Recovered(p)
              /\ (args.actual[p] > 0 /\ FGreater(saved[2].data[p], Num(0))) => ScaledByRate(p)

\* a round trip at the long time constant that recovers a large rate and
\* scales the element by it
C5_Witness ==
    /\ RoundTripCall
    /\ args.time_const = LongTimeConst
    /\ ret.kind = "array"
    /\ \E p \in 1..Len(args.actual) :
           /\ args.actual[p] = 50000
           /\ Recovered(p)
           /\ saved[1].data[p] = Num(1)
           /\ saved[2].data[p] = Num(1)
           /\ ScaledByRate(p)

DensityCall == Done /\ fn = "radiography_density"

\* C6: radiography_density with abs_coeff = 0 returns None whatever the other
\* arguments are, and evaluates nothing (it makes no array); with abs_coeff
\* nonzero it ends as extinction_length(..., abs_value = True) ends, and
\* returns that array divided by abs_coeff.
C6_DensitySentinel ==
    DensityCall =>
        IF IsZero(args.abs_coeff)
        THEN ret.kind = "None" /\ ret.locals = <<>>
        ELSE LET e == fcompute_extinction_lengths(Store(saved), 1, 2, args.clear_ratio,
                                                  args.PIN_dark, args.ref_dark, TRUE)
             IN  IF e.kind = "raise" THEN ret.kind = "raise" /\ ret.exc = e.exc
                 ELSE /\ ret.kind = "array"
                      /\ ret.val = MapArr(LAMBDA x : FDiv(x, args.abs_coeff),
                                          e.st.objs[e.id], "f")

\* abs_coeff = 0 on inputs that transmission raises on (two rows of two,
\* auto-normalized) with a zero denominator
C6_Witness ==
    /\ DensityCall
    /\ IsZero(args.abs_coeff)
    /\ IsZero(args.clear_ratio)
    /\ saved[1].shape = <<2, 2>>
    /\ \E p \in 1..Size(saved[2]) : saved[2].data[p] = args.ref_dark
    /\ ret.kind = "None"

\* C7: incident_intensity_correction on finite numbers of any shape, integer
\* or float typed: the output has the input's shape, is exactly 1 where
\* L <= 1e-5 and (1 - exp(-L)) / L elsewhere, and every element is in (0, 1].
C7_CorrectionInUnitInterval ==
    (Done /\ fn = "incident_intensity")
    => /\ ret.kind = "array"
       /\ ret.val.shape = saved[1].shape
       /\ \A p \in 1..Size(saved[1]) :
              /\ ret.val.data[p] =
                     IF FGreater(saved[1].data[p], Fin(1, SigThresholdInv))
                     THEN OneMinusExpOver(saved[1].data[p])
                     ELSE Num(1)
              /\ FGreater(ret.val.data[p], Num(0))
              /\ ~FGreater(ret.val.data[p], Num(1))

\* C8: after every call the caller's arrays hold what they held before it,
\* every in-place operation wrote to an array made inside the call, and a
\* returned array is not one of the caller's objects.
C8_InputsUnchanged ==
    Done =>
        /\ heap = saved
        /\ \A id \in ret.wrote : id > Len(saved)
        /\ ret.kind = "array" => ret.id > Len(saved)

\* a fluorescence call that divided in place and gave the divided array back
C8_Witness ==
    /\ Done
    /\ fn = "fluorescence"
    /\ ret.kind = "array"
    /\ ret.id \in ret.wrote
    /\ Truthy(args.abs_coeff.v)

\* C9: when the residual has the same sign at both ends of one element's
\* bracket, correct_deadtime and fluorescence_fit_fast end in an error and
\* return nothing, whatever the other elements are.
C9_SolverFailureRaises ==
    (/\ Done
     /\ fn \in {"correct_deadtime", "fluorescence_fit_fast"}
     /\ \E p \in 1..Size(saved[3]) : SameSign(p))
    => /\ ret.kind = "raise"
       /\ ret.val = <<>>

\* the first element solves, the second has no sign change: no array
C9_Witness ==
    /\ Done
    /\ fn = "fluorescence_fit_fast"
    /\ Size(saved[3]) = 2
    /\ ~SameSign(1)
    /\ SameSign(2)
    /\ ret.kind = "raise"
    /\ ret.exc = "ValueError"

\* the live time of fluorescence: the second object it makes
FluoLiveTime == ret.locals[2]

\* the solved rates and the live time of correct_deadtime: the third and the
\* sixth object it makes
SolvedRates == ret.locals[3]

DeadtimeLiveTime == ret.locals[6]

\* the largest finite float
MaxFloat == FinE(1, 1, 1)

\* C10 as stated, on the fluorescence path: an element with fast_events = 0
\* has live time exactly 0 whatever slow_events is, any other element has the
\* quotient slow_events / fast_events.
C10_ZeroFastZeroLiveTime ==
    (Done /\ fn = "fluorescence" /\ Len(ret.locals) >= 2)
    => \A p \in 1..Size(FluoLiveTime) :
           FluoLiveTime.data[p] =
               IF IsZero(saved[3].data[p]) THEN Num(0)
               ELSE FDiv(saved[2].data[p], saved[3].data[p])

\* C10 amended: an element with fast_events = 0 has live time exactly 0 only
\* when slow_events = 0 too (the quotient is NaN); with slow_events > 0 the
\* quotient is +inf and the live time is the largest finite float in
\* fluorescence, and a positive number in correct_deadtime; with
\* fast_events != 0 the live time is the quotient itself.
C10_LiveTimeOfZeroFast ==
    /\ (Done /\ fn = "fluorescence" /\ Len(ret.locals) >= 2)
       => \A p \in 1..Size(FluoLiveTime) :
              FluoLiveTime.data[p] =
                  IF ~IsZero(saved[3].data[p]) THEN FDiv(saved[2].data[p], saved[3].data[p])
                  ELSE IF IsZero(saved[2].data[p]) THEN Num(0)
                  ELSE MaxFloat
    /\ (Done /\ fn \in {"correct_deadtime", "fluorescence_fit_fast"} /\ Len(ret.locals) >= 6)
       => \A i \in 1..Rows(DeadtimeLiveTime), j \in 1..Cols(DeadtimeLiveTime) :
              LET live == DeadtimeLiveTime.data[(i - 1) * Cols(DeadtimeLiveTime) + j]
                  slow == At(saved[2], i, j)
              IN  IF ~IsZero(saved[3].data[j])
                  THEN live = FDiv(FDiv(slow, SolvedRates.data[j]), args.integration_time)
                  ELSE IF IsZero(slow) THEN live = Num(0)
                  ELSE FGreater(live, Num(0))

\* fluorescence on an element with fast_events = 0 and slow_events = 1
C10_Witness ==
    /\ Done
    /\ fn = "fluorescence"
    /\ Len(ret.locals) >= 2
    /\ \E p \in 1..Size(FluoLiveTime) :
           /\ IsZero(saved[3].data[p])
           /\ saved[2].data[p] = Num(1)
           /\ FluoLiveTime.data[p] = MaxFloat

====
